---- MODULE Spec2Model ----
(***************************************************************************)
(* FindingHealthyFooodML.py: a linear pipeline over one in-memory table.   *)
(*   read_csv -> null counts -> describe().mean() -> drop -> fillna ->     *)
(*   densities -> health_score -> min/max normalisation -> health_label -> *)
(*   scaling / KMeans / DBSCAN / PCA -> plots -> round(5) -> report loop.  *)
(*                                                                         *)
(* Numbers.  A cell of a numeric column is a float.  A float is modelled   *)
(* as a record [k, v]: k = "fin" with the fixed-point value v, k = "inf"   *)
(* for +infinity and k = "nan" for NaN (a null cell of the CSV is NaN).    *)
(* Nutrient and density columns are held in 1/Unit (hundredths, the        *)
(* precision of the reference constants); calories, an integer column      *)
(* that is never imputed, is held in whole kcal; scores are held in        *)
(* 10^-Digits.  Division truncates.  No negative number occurs: the        *)
(* nutrient quantities of the CSV are non-negative.                        *)
(***************************************************************************)
EXTENDS Integers, Sequences, FiniteSets, TLC

VARIABLES
    pc,             \* the statement the script executes next
    csv,            \* the content of fastfood.csv (never changes)
    food_data,      \* the table: a sequence of rows, a row maps column -> cell
    null_values,    \* line 25: column -> number of null cells
    null_cols_avg,  \* lines 34-36: column -> fill value
    min_score,      \* line 72
    max_score,      \* line 73
    plots,          \* number of figures shown (lines 121-150)
    printed         \* the report: per label printed so far, the rows in the
                    \* order printed and the lines printed for them

vars == <<pc, csv, food_data, null_values, null_cols_avg, min_score, max_score,
          plots, printed>>

----------------------------------------------------------------------------
(* Bounds of the model *)

\* largest number of rows of fastfood.csv
MaxRows == 3

\* decimal digits kept of a score (health_score, 'Health Score')
Digits == 6

----------------------------------------------------------------------------
(* Floats *)

Unit == 100

RECURSIVE Pow10(_)
Pow10(k) == IF k = 0 THEN 1 ELSE 10 * Pow10(k - 1)

ScoreOne == Pow10(Digits)

NaN == [k |-> "nan", v |-> 0]
Inf == [k |-> "inf", v |-> 0]
Fin(x) == [k |-> "fin", v |-> x]

\* a whole number held in 1/Unit
Num(x) == Fin(x * Unit)

IsNaN(x) == x.k = "nan"
IsFin(x) == x.k = "fin"

Abs(x) == IF x < 0 THEN -x ELSE x

\* x <= y and x > y on floats: every comparison with NaN is False
FLe(x, y) ==
    /\ ~IsNaN(x) /\ ~IsNaN(y)
    /\ \/ y.k = "inf"
       \/ IsFin(x) /\ IsFin(y) /\ x.v <= y.v

FGt(x, y) ==
    /\ ~IsNaN(x) /\ ~IsNaN(y)
    /\ \/ x.k = "inf" /\ IsFin(y)
       \/ IsFin(x) /\ IsFin(y) /\ x.v > y.v

\* x + y and x - y, x >= y when both are finite
FAdd(x, y) ==
    IF IsNaN(x) \/ IsNaN(y) THEN NaN
    ELSE IF x.k = "inf" \/ y.k = "inf" THEN Inf
    ELSE Fin(x.v + y.v)

FSub(x, y) ==
    IF IsNaN(x) \/ IsNaN(y) THEN NaN
    ELSE IF x.k = "inf" /\ y.k = "inf" THEN NaN
    ELSE IF x.k = "inf" THEN Inf
    ELSE Fin(x.v - y.v)

\* floor(r * 10^k / c) for 0 <= r <= c, c > 0, digit by digit
RECURSIVE LongDiv(_, _, _)
LongDiv(r, c, k) ==
    IF k = 0 THEN 0
    ELSE ((r * 10) \div c) * Pow10(k - 1) + LongDiv((r * 10) % c, c, k - 1)

----------------------------------------------------------------------------
(* The input file *)

StringCols == {"item", "salad"}

\* a row of fastfood.csv, with the columns the script names
BaseRow ==
    [item |-> "healthy", calories |-> Fin(1000), cal_fat |-> Num(360),
     total_fat |-> Num(40), sat_fat |-> Num(10), trans_fat |-> Num(0),
     sodium |-> Num(1700), fiber |-> Num(5), sugar |-> Num(5),
     protein |-> Num(60), vit_a |-> Num(10), vit_c |-> Num(10),
     calcium |-> Num(40), salad |-> "Other"]

\* the rows a fastfood.csv of the model is made of
RowPool ==
    { BaseRow,
      [BaseRow EXCEPT !.item = "salty", !.sodium = Num(2000), !.fiber = Num(10)],
      [BaseRow EXCEPT !.item = "greasy", !.sodium = Num(2000), !.total_fat = Num(50),
                      !.fiber = Num(30), !.sugar = Num(20)],
      [BaseRow EXCEPT !.item = "half", !.calories = Fin(500), !.total_fat = Num(20),
                      !.sodium = Num(850), !.sugar = Num(10), !.protein = Num(5),
                      !.vit_a = NaN, !.salad = "Salad"],
      [BaseRow EXCEPT !.item = "edge", !.calories = Fin(50000), !.total_fat = Num(2133),
                      !.sodium = Num(20000), !.sat_fat = Num(726)],
      [BaseRow EXCEPT !.item = "nofiber", !.fiber = NaN, !.protein = NaN,
                      !.calcium = NaN, !.vit_c = NaN],
      [BaseRow EXCEPT !.item = "water", !.calories = Fin(0), !.total_fat = Num(0),
                      !.sat_fat = Num(0), !.sodium = Num(0), !.fiber = Num(0),
                      !.sugar = Num(0), !.protein = Num(0), !.calcium = Num(0)],
      [BaseRow EXCEPT !.item = "zerocal", !.calories = Fin(0), !.sodium = Num(0),
                      !.total_fat = Num(5)],
      [BaseRow EXCEPT !.item = "zerofat", !.calories = Fin(0), !.sodium = Num(100),
                      !.total_fat = Num(0)],
      [BaseRow EXCEPT !.item = "nosodium", !.sodium = NaN, !.total_fat = Num(50)] }

Datasets == UNION { [1..n -> RowPool] : n \in 1..MaxRows }

Rows == 1..Len(food_data)

Columns(table) == IF Len(table) = 0 THEN {} ELSE DOMAIN table[1]

Init ==
    /\ pc = "read_csv"
    /\ csv \in Datasets
    /\ food_data = <<>>
    /\ null_values = <<>>
    /\ null_cols_avg = <<>>
    /\ min_score = NaN
    /\ max_score = NaN
    /\ plots = 0
    /\ printed = <<>>

\* line 18: food_data = pd.read_csv(fast_food)
ReadCsv ==
    /\ pc = "read_csv"
    /\ food_data' = csv
    /\ pc' = "isnull"
    /\ UNCHANGED <<csv, null_values, null_cols_avg, min_score, max_score, plots, printed>>

IsNull(row, col) == col \notin StringCols /\ IsNaN(row[col])

\* lines 25-30: null_values = dict(food_data.isnull().sum()), then printed as percentages
CountNulls ==
    /\ pc = "isnull"
    /\ null_values' = [c \in Columns(food_data) |->
                          Cardinality({i \in Rows : IsNull(food_data[i], c)})]
    /\ pc' = "describe"
    /\ UNCHANGED <<csv, food_data, null_cols_avg, min_score, max_score, plots, printed>>

----------------------------------------------------------------------------
(* Cleaner *)

\* the cells of one column, top to bottom
ColumnOf(table, col) == [i \in 1..Len(table) |-> table[i][col]]

\* the finite values of a series, NaN skipped (pandas' skipna)
Values(series) ==
    LET kept == SelectSeq(series, LAMBDA x : ~IsNaN(x))
    IN  [i \in 1..Len(kept) |-> kept[i].v]

RECURSIVE SumSeq(_)
SumSeq(s) == IF Len(s) = 0 THEN 0 ELSE Head(s) + SumSeq(Tail(s))

RECURSIVE InsertSorted(_, _)
InsertSorted(x, s) ==
    IF Len(s) = 0 THEN <<x>>
    ELSE IF x <= Head(s) THEN <<x>> \o s
    ELSE <<Head(s)>> \o InsertSorted(x, Tail(s))

RECURSIVE SortAsc(_)
SortAsc(s) == IF Len(s) = 0 THEN <<>> ELSE InsertSorted(Head(s), SortAsc(Tail(s)))

\* floor(sqrt(v)), lo * lo <= v < hi * hi
RECURSIVE IsqrtBetween(_, _, _)
IsqrtBetween(v, lo, hi) ==
    IF hi - lo <= 1 THEN lo
    ELSE LET mid == (lo + hi) \div 2
         IN  IF mid * mid <= v THEN IsqrtBetween(v, mid, hi)
             ELSE IsqrtBetween(v, lo, mid)

Isqrt(v) == IsqrtBetween(v, 0, 46341)

\* Series.mean(): the mean of the non-NaN entries, NaN when there is none
SeriesMean(series) ==
    LET xs == Values(series)
    IN  IF Len(xs) = 0 THEN NaN ELSE Fin(SumSeq(xs) \div Len(xs))

\* the sample standard deviation (ddof = 1), NaN for fewer than two values
SeriesStd(series) ==
    LET xs == Values(series)
        n  == Len(xs)
        m  == SumSeq(xs) \div n
    IN  IF n < 2 THEN NaN
        ELSE Fin(Isqrt(SumSeq([i \in 1..n |-> (xs[i] - m) * (xs[i] - m)]) \div (n - 1)))

\* the quartile k/4, linearly interpolated between the two nearest ranks
SeriesQuantile(series, k) ==
    LET xs  == SortAsc(Values(series))
        n   == Len(xs)
        pos == k * (n - 1)
        lo  == pos \div 4 + 1
        fr  == pos % 4
        hi  == IF fr = 0 THEN lo ELSE lo + 1
    IN  IF n = 0 THEN NaN
        ELSE Fin(xs[lo] + ((xs[hi] - xs[lo]) * fr) \div 4)

\* Series.describe(): count, mean, std, min, 25%, 50%, 75%, max
Describe(series) ==
    << Num(Len(Values(series))),
       SeriesMean(series),
       SeriesStd(series),
       SeriesQuantile(series, 0),
       SeriesQuantile(series, 1),
       SeriesQuantile(series, 2),
       SeriesQuantile(series, 3),
       SeriesQuantile(series, 4) >>

\* line 33
null_cols == {"fiber", "protein", "vit_a", "vit_c", "calcium"}

\* line 36: food_data[col].describe().mean(), the mean of the eight statistics
FillValue(series) == SeriesMean(Describe(series))

\* lines 33-37
ComputeNullColsAvg ==
    /\ pc = "describe"
    /\ null_cols_avg' = [col \in null_cols |-> FillValue(ColumnOf(food_data, col))]
    /\ pc' = "drop"
    /\ UNCHANGED <<csv, food_data, null_values, min_score, max_score, plots, printed>>

\* a drop that leaves trans_fat in the table
DroppedColumns_Two == {"salad", "cal_fat"}

\* line 40: the columns food_data.drop removes
DroppedColumns == {"salad", "cal_fat", "trans_fat"}

\* line 40: food_data.drop([...], axis=1, inplace=True)
DropColumns ==
    /\ pc = "drop"
    /\ food_data' = [i \in Rows |->
                        [c \in DOMAIN food_data[i] \ DroppedColumns |-> food_data[i][c]]]
    /\ pc' = "fillna"
    /\ UNCHANGED <<csv, null_values, null_cols_avg, min_score, max_score, plots, printed>>

\* line 43: food_data.fillna(value=null_cols_avg, inplace=True)
FillNa ==
    /\ pc = "fillna"
    /\ food_data' = [i \in Rows |->
                        [c \in DOMAIN food_data[i] |->
                            IF c \in DOMAIN null_cols_avg /\ IsNull(food_data[i], c)
                            THEN null_cols_avg[c]
                            ELSE food_data[i][c]]]
    /\ pc' = "density"
    /\ UNCHANGED <<csv, null_values, null_cols_avg, min_score, max_score, plots, printed>>

----------------------------------------------------------------------------
(* Feature deriver *)

\* lines 47-55, in 1/Unit
recommended_density_per_1000cal ==
    [total_fat |-> 4266, sat_fat |-> 1452, sodium |-> 174765, fiber |-> 595,
     sugar |-> 569, protein |-> 7030, calcium |-> 45951]

\* the keys of the dict, in its order
Nutrients == <<"total_fat", "sat_fat", "sodium", "fiber", "sugar", "protein", "calcium">>

\* line 59: f"{nutrient}_per_1000cal"
col_name ==
    [total_fat |-> "total_fat_per_1000cal", sat_fat |-> "sat_fat_per_1000cal",
     sodium |-> "sodium_per_1000cal", fiber |-> "fiber_per_1000cal",
     sugar |-> "sugar_per_1000cal", protein |-> "protein_per_1000cal",
     calcium |-> "calcium_per_1000cal"]

DensityColumns == {col_name[n] : n \in DOMAIN col_name}

\* a division that yields 0 for calories = 0 instead of inf or NaN
Density_GuardsZero(nutrient, calories) ==
    IF IsNaN(nutrient) \/ IsNaN(calories) THEN NaN
    ELSE IF calories.v = 0 THEN Fin(0)
    ELSE Fin((nutrient.v * 1000) \div calories.v)

\* line 60, one cell: (nutrient / calories) * 1000.  pandas divides by zero
\* without raising: x / 0 is inf for x > 0 and NaN for x = 0
Density(nutrient, calories) ==
    IF IsNaN(nutrient) \/ IsNaN(calories) THEN NaN
    ELSE IF calories.v = 0 THEN (IF nutrient.v = 0 THEN NaN ELSE Inf)
    ELSE Fin((nutrient.v * 1000) \div calories.v)

\* lines 58-60
DeriveDensities ==
    /\ pc = "density"
    /\ food_data' = [i \in Rows |->
                        [c \in DensityColumns |->
                            LET n == CHOOSE n \in DOMAIN col_name : col_name[n] = c
                            IN  Density(food_data[i][n], food_data[i].calories)]
                        @@ food_data[i]]
    /\ pc' = "score"
    /\ UNCHANGED <<csv, null_values, null_cols_avg, min_score, max_score, plots, printed>>

----------------------------------------------------------------------------
(* Scorer *)

\* line 67, one term: 1 / (abs(actual - rec_value) + 1)
ScoreTerm(actual, rec_value) ==
    IF IsNaN(actual) THEN NaN
    ELSE IF actual.k = "inf" THEN Fin(0)
    ELSE Fin((ScoreOne * Unit) \div (Abs(actual.v - rec_value) + Unit))

\* lines 64-68: the loop over the first n nutrients
RECURSIVE ScoreUpTo(_, _)
ScoreUpTo(row, n) ==
    IF n = 0 THEN Fin(0)
    ELSE FAdd(ScoreUpTo(row, n - 1),
              ScoreTerm(row[col_name[Nutrients[n]]],
                        recommended_density_per_1000cal[Nutrients[n]]))

\* lines 63-68
compute_health_score(row) == ScoreUpTo(row, Len(Nutrients))

\* line 70
ScoreRows ==
    /\ pc = "score"
    /\ food_data' = [i \in Rows |->
                        [health_score |-> compute_health_score(food_data[i])]
                        @@ food_data[i]]
    /\ pc' = "normalize"
    /\ UNCHANGED <<csv, null_values, null_cols_avg, min_score, max_score, plots, printed>>

\* Series.min() and Series.max(): NaN skipped, NaN when nothing is left
SeriesMin(series) ==
    LET xs == SortAsc(Values(series))
    IN  IF Len(xs) = 0 THEN NaN ELSE Fin(xs[1])

SeriesMax(series) ==
    LET xs == SortAsc(Values(series))
    IN  IF Len(xs) = 0 THEN NaN ELSE Fin(xs[Len(xs)])

\* line 74, one cell: x / y for 0 <= x <= y.  pandas divides by zero without
\* raising: 0 / 0 is NaN
ScoreDivide(x, y) ==
    IF IsNaN(x) \/ IsNaN(y) THEN NaN
    ELSE IF y.v = 0 THEN (IF x.v = 0 THEN NaN ELSE Inf)
    ELSE Fin(LongDiv(x.v, y.v, Digits))

\* a normalization that raises ZeroDivisionError when max_score = min_score
Normalize_RaisesOnZeroRange ==
    /\ pc = "normalize"
    /\ LET lo == SeriesMin(ColumnOf(food_data, "health_score"))
           hi == SeriesMax(ColumnOf(food_data, "health_score"))
       IN  /\ min_score' = lo
           /\ max_score' = hi
           /\ IF IsFin(lo) /\ lo = hi
              THEN pc' = "failed" /\ food_data' = food_data
              ELSE /\ pc' = "classify"
                   /\ food_data' = [i \in Rows |->
                                       ("Health Score" :>
                                            ScoreDivide(FSub(food_data[i].health_score, lo),
                                                        FSub(hi, lo)))
                                       @@ food_data[i]]
    /\ UNCHANGED <<csv, null_values, null_cols_avg, plots, printed>>

\* lines 72-74
Normalize ==
    /\ pc = "normalize"
    /\ LET lo == SeriesMin(ColumnOf(food_data, "health_score"))
           hi == SeriesMax(ColumnOf(food_data, "health_score"))
       IN  /\ min_score' = lo
           /\ max_score' = hi
           /\ food_data' = [i \in Rows |->
                               ("Health Score" :>
                                    ScoreDivide(FSub(food_data[i].health_score, lo),
                                                FSub(hi, lo)))
                               @@ food_data[i]]
    /\ pc' = "classify"
    /\ UNCHANGED <<csv, null_values, null_cols_avg, plots, printed>>

----------------------------------------------------------------------------
(* Classifier *)

\* a classifier that also holds sugar against its limit
classify_health_UsesSugar(row) ==
    LET sodium       == row["sodium_per_1000cal"]
        fat          == row["total_fat_per_1000cal"]
        sugar        == row["sugar_per_1000cal"]
        sodium_limit == Fin(recommended_density_per_1000cal["sodium"])
        fat_limit    == Fin(recommended_density_per_1000cal["total_fat"])
        sugar_limit  == Fin(recommended_density_per_1000cal["sugar"])
    IN  IF FLe(sodium, sodium_limit) /\ FLe(fat, fat_limit) /\ FLe(sugar, sugar_limit)
        THEN "Healthy"
        ELSE IF \/ FGt(sodium, sodium_limit) /\ FLe(fat, fat_limit)
                \/ FGt(fat, fat_limit) /\ FLe(sodium, sodium_limit)
        THEN "Moderate"
        ELSE "Unhealthy"

\* a classifier whose last label is not spelled as the report spells it
classify_health_Misspelt(row) ==
    LET sodium       == row["sodium_per_1000cal"]
        fat          == row["total_fat_per_1000cal"]
        sodium_limit == Fin(recommended_density_per_1000cal["sodium"])
        fat_limit    == Fin(recommended_density_per_1000cal["total_fat"])
    IN  IF FLe(sodium, sodium_limit) /\ FLe(fat, fat_limit)
        THEN "Healthy"
        ELSE IF \/ FGt(sodium, sodium_limit) /\ FLe(fat, fat_limit)
                \/ FGt(fat, fat_limit) /\ FLe(sodium, sodium_limit)
        THEN "Moderate"
        ELSE "UnHealthy"

\* lines 77-90
classify_health(row) ==
    LET sodium       == row["sodium_per_1000cal"]
        fat          == row["total_fat_per_1000cal"]
        sugar        == row["sugar_per_1000cal"]
        sodium_limit == Fin(recommended_density_per_1000cal["sodium"])
        fat_limit    == Fin(recommended_density_per_1000cal["total_fat"])
        sugar_limit  == Fin(recommended_density_per_1000cal["sugar"])
    IN  IF FLe(sodium, sodium_limit) /\ FLe(fat, fat_limit)
        THEN "Healthy"
        ELSE IF \/ FGt(sodium, sodium_limit) /\ FLe(fat, fat_limit)
                \/ FGt(fat, fat_limit) /\ FLe(sodium, sodium_limit)
        THEN "Moderate"
        ELSE "Unhealthy"

\* line 92
Classify ==
    /\ pc = "classify"
    /\ food_data' = [i \in Rows |->
                        [health_label |-> classify_health(food_data[i])]
                        @@ food_data[i]]
    /\ pc' = "cluster"
    /\ UNCHANGED <<csv, null_values, null_cols_avg, min_score, max_score, plots, printed>>

----------------------------------------------------------------------------
(* Cluster analyzer *)

\* line 95
features == {"health_score", "sodium_per_1000cal", "total_fat_per_1000cal",
             "sugar_per_1000cal"}

\* line 101
n_clusters == 2

\* a cell whose value a library routine computes (a cluster id, a PCA
\* coordinate): the value is not modelled
Computed == [k |-> "lib", v |-> 0]

\* lines 102-116: the columns the step adds
ClusterColumns == {"kmeans_cluster", "dbscan_cluster", "pca1", "pca2"}

\* lines 96-112: StandardScaler.fit_transform rejects an infinite value,
\* KMeans.fit_predict rejects NaN and fewer samples than clusters (ValueError)
ClusterRaises ==
    \/ Len(food_data) < n_clusters
    \/ \E i \in Rows : \E f \in features : ~IsFin(food_data[i][f])

\* lines 95-119
Cluster ==
    /\ pc = "cluster"
    /\ ~ClusterRaises
    /\ food_data' = [i \in Rows |-> [c \in ClusterColumns |-> Computed] @@ food_data[i]]
    /\ pc' = "plot"
    /\ UNCHANGED <<csv, null_values, null_cols_avg, min_score, max_score, plots, printed>>

\* the unhandled ValueError ends the process
ClusterFail ==
    /\ pc = "cluster"
    /\ ClusterRaises
    /\ pc' = "failed"
    /\ UNCHANGED <<csv, food_data, null_values, null_cols_avg, min_score, max_score,
                   plots, printed>>

----------------------------------------------------------------------------
(* Reporter *)

\* lines 121-150: three figures
Plot ==
    /\ pc = "plot"
    /\ plots' = 3
    /\ pc' = "round"
    /\ UNCHANGED <<csv, food_data, null_values, null_cols_avg, min_score, max_score,
                   printed>>

\* line 156
RoundDecimals == 5

\* the columns held in 10^-Digits; the others are held in 1/Unit, which
\* rounding to 5 decimals leaves alone
ScoreColumns == {"health_score", "Health Score"}

\* line 156, one cell of a score column: round half to even
RoundCell(x) ==
    IF ~IsFin(x) THEN x
    ELSE LET step == Pow10(Digits - RoundDecimals)
             q    == x.v \div step
             r    == x.v % step
             up   == 2 * r > step \/ (2 * r = step /\ q % 2 = 1)
         IN  Fin((q + (IF up THEN 1 ELSE 0)) * step)

\* line 156: food_data = food_data.round(5)
RoundTable ==
    /\ pc = "round"
    /\ food_data' = [i \in Rows |->
                        [c \in DOMAIN food_data[i] |->
                            IF c \in ScoreColumns THEN RoundCell(food_data[i][c])
                            ELSE food_data[i][c]]]
    /\ pc' = "report"
    /\ UNCHANGED <<csv, null_values, null_cols_avg, min_score, max_score, plots, printed>>

\* line 153
columns_to_show == <<"item", "Health Score", "calories", "total_fat", "sat_fat",
                     "sodium", "fiber", "sugar", "protein", "calcium">>

\* line 159
ReportLabels == <<"Healthy", "Moderate", "Unhealthy">>

\* line 161: food_data[food_data['health_label'] == label]
LabelGroup(label) == {i \in Rows : food_data[i].health_label = label}

\* the orders a set of rows can be listed in
Orderings(S) ==
    {f \in [1..Cardinality(S) -> S] : \A p, q \in DOMAIN f : f[p] = f[q] => p = q}

\* a sort that is ascending
SortedByScore_Ascending(order) ==
    \A p, q \in DOMAIN order :
        p < q =>
            LET a == food_data[order[p]]["Health Score"]
                b == food_data[order[q]]["Health Score"]
            IN  /\ IsNaN(a) => IsNaN(b)
                /\ IsFin(a) /\ IsFin(b) => a.v <= b.v

\* line 161: sort_values(by='Health Score', ascending=False): no row before
\* a row with a larger score, NaN scores last; the order of ties is the sort's
SortedByScore(order) ==
    \A p, q \in DOMAIN order :
        p < q =>
            LET a == food_data[order[p]]["Health Score"]
                b == food_data[order[q]]["Health Score"]
            IN  /\ IsNaN(a) => IsNaN(b)
                /\ IsFin(a) /\ IsFin(b) => a.v >= b.v

\* line 161: [columns_to_show], the line printed for row i
Shown(i) == [n \in DOMAIN columns_to_show |-> food_data[i][columns_to_show[n]]]

\* lines 159-161, one iteration of the loop
PrintGroup ==
    /\ pc = "report"
    /\ LET label == ReportLabels[Len(printed) + 1]
       IN  \E order \in Orderings(LabelGroup(label)) :
              /\ SortedByScore(order)
              /\ printed' = Append(printed,
                                    [label |-> label, rows |-> order,
                                     lines |-> [p \in DOMAIN order |-> Shown(order[p])]])
    /\ pc' = IF Len(printed) + 1 = Len(ReportLabels) THEN "done" ELSE "report"
    /\ UNCHANGED <<csv, food_data, null_values, null_cols_avg, min_score, max_score,
                   plots>>

----------------------------------------------------------------------------

Next ==
    \/ ReadCsv \/ CountNulls \/ ComputeNullColsAvg \/ DropColumns \/ FillNa
    \/ DeriveDensities \/ ScoreRows \/ Normalize \/ Classify
    \/ Cluster \/ ClusterFail \/ Plot \/ RoundTable \/ PrintGroup

Spec == Init /\ [][Next]_vars
----------------------------------------------------------------------------
(* Properties *)

\* the steps that have run
Imputed    == pc \notin {"read_csv", "isnull", "describe", "drop", "fillna"}
Scored     == Imputed /\ pc \notin {"density", "score"}
Normalized == Scored /\ pc # "normalize"
Classified == Normalized /\ pc # "classify"
Rounded    == pc \in {"report", "done"}

\* a density is over / within a limit (in 1/Unit); NaN is neither
Exceeds(x, limit) == x.k = "inf" \/ (x.k = "fin" /\ x.v > limit)
Within(x, limit)  == x.k = "fin" /\ x.v <= limit

SodiumOf(i) == food_data[i]["sodium_per_1000cal"]
FatOf(i)    == food_data[i]["total_fat_per_1000cal"]

\* C1: every row is labelled by the two comparisons: both densities within
\* their limits (sodium 1747.65, fat 42.66) gives Healthy, exactly one density
\* over its limit gives Moderate, both over gives Unhealthy.
C1_LabelByComparisons ==
    Classified =>
        \A i \in Rows :
            LET sHigh == Exceeds(SodiumOf(i), 174765)
                fHigh == Exceeds(FatOf(i), 4266)
                label == food_data[i].health_label
            IN  /\ Within(SodiumOf(i), 174765) /\ Within(FatOf(i), 4266)
                      => label = "Healthy"
                /\ (sHigh /\ ~fHigh) \/ (fHigh /\ ~sHigh) => label = "Moderate"
                /\ sHigh /\ fHigh => label = "Unhealthy"

\* the arithmetic mean of the non-null cells of a column of the file
ColumnMean(col) ==
    LET xs == Values(ColumnOf(csv, col))
    IN  SumSeq(xs) \div Len(xs)

\* C2: after the imputation, none of the five imputed columns holds a null,
\* and every cell that was null holds the arithmetic mean of the column's
\* non-null values.
C2_MeanImputation ==
    Imputed =>
        \A col \in {"fiber", "protein", "vit_a", "vit_c", "calcium"} :
            \A i \in Rows :
                /\ ~IsNaN(food_data[i][col])
                /\ IsNaN(csv[i][col]) /\ Len(Values(ColumnOf(csv, col))) > 0
                      => food_data[i][col] = Fin(ColumnMean(col))

\* C3: the normalized 'Health Score' of every row lies in [0, 1]; a row with
\* the minimum raw score holds 0 and a row with the maximum raw score holds 1.
C3_NormalizedRange ==
    Normalized =>
        \A i \in Rows :
            LET hs == food_data[i]["Health Score"]
            IN  /\ IsFin(hs) /\ 0 <= hs.v /\ hs.v <= ScoreOne
                /\ ~Rounded /\ food_data[i].health_score = min_score => hs = Fin(0)
                /\ ~Rounded /\ food_data[i].health_score = max_score => hs = Fin(ScoreOne)

\* a row that holds nothing but the two densities the label is said to read
OnlyDensities(sodium, fat) ==
    [sodium_per_1000cal |-> sodium, total_fat_per_1000cal |-> fat,
     sugar_per_1000cal |-> Fin(0)]

\* C4: the label of a row is a function of its sodium and fat densities
\* alone: two rows that agree on both carry the same label, and a row's label
\* is the one of a row that holds those two densities and nothing else.
C4_LabelNonInterference ==
    Classified =>
        /\ \A i, j \in Rows :
              SodiumOf(i) = SodiumOf(j) /\ FatOf(i) = FatOf(j)
                  => food_data[i].health_label = food_data[j].health_label
        /\ \A i \in Rows :
              food_data[i].health_label =
                  classify_health(OnlyDensities(SodiumOf(i), FatOf(i)))

\* C4: two rows with the same two densities and the same label that differ in
\* sugar density, calories and raw score.
C4_Witness ==
    /\ Classified
    /\ \E i, j \in Rows :
          /\ SodiumOf(i) = SodiumOf(j) /\ FatOf(i) = FatOf(j)
          /\ food_data[i]["sugar_per_1000cal"] = Fin(500)
          /\ food_data[j]["sugar_per_1000cal"] = Fin(2000)
          /\ food_data[i].calories # food_data[j].calories
          /\ food_data[i].health_score # food_data[j].health_score
          /\ food_data[i].health_label = food_data[j].health_label

\* the places of the report that show row i
PlacesOf(i) ==
    {kp \in (1..Len(printed)) \X (1..Len(food_data)) :
        /\ kp[2] <= Len(printed[kp[1]].rows)
        /\ printed[kp[1]].rows[kp[2]] = i}

\* C5: after the classification every row carries exactly one of the three
\* labels; the groups the report prints do not overlap, and once the three
\* are printed every row is shown exactly once.
C5_LabelPartition ==
    /\ Classified =>
          \A i \in Rows :
              Cardinality({l \in {"Healthy", "Moderate", "Unhealthy"} :
                              food_data[i].health_label = l}) = 1
    /\ \A i \in Rows : Cardinality(PlacesOf(i)) <= 1
    /\ pc = "done" => \A i \in Rows : Cardinality(PlacesOf(i)) = 1

\* C5: a finished report with rows in all three groups.
C5_Witness ==
    /\ pc = "done"
    /\ \A k \in 1..3 : Len(printed[k].rows) >= 1

\* C6: the raw score of every row is a number in [0, 7]; each of the seven
\* terms is at most 1, is 1 exactly when the density equals the recommended
\* one, and is smaller for a row whose density diverges more.
C6_ScoreBounds ==
    Scored =>
        \A i \in Rows :
            LET term(r, n) == ScoreTerm(food_data[r][col_name[n]],
                                        recommended_density_per_1000cal[n])
                gap(r, n)  == Abs(food_data[r][col_name[n]].v
                                  - recommended_density_per_1000cal[n])
            IN  /\ IsFin(food_data[i].health_score)
                /\ 0 <= food_data[i].health_score.v
                /\ food_data[i].health_score.v <= 7 * ScoreOne
                /\ \A n \in DOMAIN col_name :
                      /\ IsFin(term(i, n)) /\ term(i, n).v <= ScoreOne
                      /\ term(i, n).v = ScoreOne
                            <=> food_data[i][col_name[n]] =
                                    Fin(recommended_density_per_1000cal[n])
                      /\ \A j \in Rows :
                            /\ IsFin(food_data[i][col_name[n]])
                            /\ IsFin(food_data[j][col_name[n]])
                            /\ gap(i, n) < gap(j, n)
                            => term(i, n).v > term(j, n).v

\* is score b strictly higher than score a
Higher(b, a) == IsFin(a) /\ IsFin(b) /\ b.v > a.v

\* C7: the report prints the groups in the order Healthy, Moderate,
\* Unhealthy, each with exactly the rows that carry the label, and within a
\* group no line comes before a line whose 'Health Score', as rounded to 5
\* decimals, is higher.
C7_ReportOrder ==
    \A k \in 1..Len(printed) :
        /\ printed[k].label = <<"Healthy", "Moderate", "Unhealthy">>[k]
        /\ {printed[k].rows[p] : p \in 1..Len(printed[k].rows)}
              = {i \in Rows : food_data[i].health_label = printed[k].label}
        /\ \A p \in 1..Len(printed[k].rows) :
              /\ printed[k].lines[p][1] = food_data[printed[k].rows[p]].item
              /\ printed[k].lines[p][2] =
                    RoundCell(food_data[printed[k].rows[p]]["Health Score"])
        /\ \A p, q \in 1..Len(printed[k].lines) :
              p < q => ~Higher(printed[k].lines[q][2], printed[k].lines[p][2])

\* C7: a finished report with a group of three rows of three different scores.
C7_Witness ==
    /\ pc = "done"
    /\ \E k \in 1..3 :
          /\ Len(printed[k].rows) = 3
          /\ Higher(printed[k].lines[1][2], printed[k].lines[2][2])
          /\ Higher(printed[k].lines[2][2], printed[k].lines[3][2])

\* every row has the same raw score
ZeroRange == IsFin(min_score) /\ min_score = max_score

\* C8 as stated: when every row has the same raw score the process ends at
\* the normalization and no later step runs.
C8_TerminatesAtNormalization ==
    ZeroRange => ~Classified

\* C8 as amended: when every row has the same raw score the normalization
\* raises nothing, every 'Health Score' is NaN and the classification runs;
\* the normalization never ends a run: a run that ends early ends in the
\* clustering, on fewer rows than clusters or on a feature that is not finite.
C8_ZeroRangeContinues ==
    /\ Normalized /\ ZeroRange =>
          /\ \A i \in Rows :
                /\ "Health Score" \in DOMAIN food_data[i]
                /\ IsNaN(food_data[i]["Health Score"])
          /\ pc = "classify" => ENABLED Classify
    /\ pc = "failed" =>
          \/ Len(food_data) < 2
          \/ \E i \in Rows :
                \E f \in {"health_score", "sodium_per_1000cal",
                          "total_fat_per_1000cal", "sugar_per_1000cal"} :
                    ~IsFin(food_data[i][f])

\* C8: a finished report over rows that all have the same raw score.
C8_Witness ==
    /\ pc = "done"
    /\ ZeroRange
    /\ \E k \in 1..3 : Len(printed[k].rows) >= 2

\* what C9 says of the rows with calories = 0, up to its last clause
ZeroCaloriesRow(i) ==
    /\ \A n \in DOMAIN col_name :
          /\ IsFin(food_data[i][n]) /\ food_data[i][n].v > 0
                => food_data[i][col_name[n]] = Inf
          /\ food_data[i][n] = Fin(0) => IsNaN(food_data[i][col_name[n]])
    /\ (\E n \in DOMAIN col_name : IsNaN(food_data[i][col_name[n]]))
          => IsNaN(food_data[i].health_score)
    /\ Classified => food_data[i].health_label \in {"Healthy", "Moderate", "Unhealthy"}
    /\ Classified /\ (IsNaN(SodiumOf(i)) \/ IsNaN(FatOf(i)))
          => food_data[i].health_label = "Unhealthy"

\* C9 as stated: a row with calories = 0 gets infinite or undefined
\* densities, is scored and labelled; with an undefined sodium or fat density
\* it is labelled Unhealthy although neither density is over its limit.
C9_NeitherExceeds ==
    Scored =>
        \A i \in Rows :
            csv[i].calories = Fin(0) =>
                /\ ZeroCaloriesRow(i)
                /\ IsNaN(SodiumOf(i)) \/ IsNaN(FatOf(i))
                      => ~Exceeds(SodiumOf(i), 174765) /\ ~Exceeds(FatOf(i), 4266)

\* C9 as amended: ... it is labelled Unhealthy although the two densities are
\* not both over their limits.
C9_ZeroCalories ==
    Scored =>
        \A i \in Rows :
            csv[i].calories = Fin(0) =>
                /\ ZeroCaloriesRow(i)
                /\ IsNaN(SodiumOf(i)) \/ IsNaN(FatOf(i))
                      => ~(Exceeds(SodiumOf(i), 174765) /\ Exceeds(FatOf(i), 4266))

\* C9: a labelled row with calories = 0, an undefined sodium density and an
\* infinite fat density.
C9_Witness ==
    /\ Classified
    /\ \E i \in Rows :
          /\ csv[i].calories = Fin(0)
          /\ IsNaN(SodiumOf(i))
          /\ FatOf(i) = Inf
          /\ food_data[i].health_label = "Unhealthy"

ItemsOf(table) == [i \in 1..Len(table) |-> table[i].item]

\* C10 as stated: the rows stay those loaded and exactly two columns are
\* removed.
C10_TwoColumnsRemoved ==
    pc = "done" =>
        /\ ItemsOf(food_data) = ItemsOf(csv)
        /\ Cardinality(Columns(csv) \ Columns(food_data)) = 2

\* C10 as amended: the rows stay those loaded; the cleaner's drop removes
\* exactly the three columns salad, cal_fat and trans_fat and adds none;
\* every other step keeps every column.
C10_FrameEffect ==
    [][ /\ ItemsOf(food_data') = ItemsOf(csv)
        /\ pc # "drop" /\ pc # "read_csv" => Columns(food_data) \subseteq Columns(food_data')
        /\ pc = "drop" =>
              /\ Columns(food_data) \ Columns(food_data') = {"salad", "cal_fat", "trans_fat"}
              /\ Columns(food_data') \subseteq Columns(food_data)
        /\ pc' = "done" =>
              Columns(csv) \ Columns(food_data') = {"salad", "cal_fat", "trans_fat"}
      ]_vars

\* C10: a finished run whose table has the rows of the file, lacks the three
\* columns and has gained the derived ones.
C10_Witness ==
    /\ pc = "done"
    /\ Len(food_data) = Len(csv) /\ Len(csv) >= 2
    /\ Columns(csv) \ Columns(food_data) = {"salad", "cal_fat", "trans_fat"}
    /\ {"health_score", "Health Score", "health_label", "kmeans_cluster",
        "dbscan_cluster", "pca1", "pca2"} \subseteq Columns(food_data)
====
